---- MODULE Spec2Model ----
(***************************************************************************)
(* The LC-3 virtual machine of src/src/lc3_vm.rs: the image loader         *)
(* (VM::read_program), the fetch-decode-execute loop (VM::start), the      *)
(* instruction handlers, the trap routines and the memory primitives.      *)
(*                                                                         *)
(* All machine words are u16.  The handlers add with the plain `+` / `+=`  *)
(* of Rust, which wraps modulo 2^16 in a build without overflow checks     *)
(* (the release profile) and panics with "attempt to add with overflow"    *)
(* in a build with them (the debug profile, the default of cargo build,    *)
(* run and test).  The build is not fixed by the sources, so it is the     *)
(* variable overflow_checks, chosen once in Init.                          *)
(***************************************************************************)
EXTENDS Integers, Sequences, FiniteSets, TLC

(***************************************************************************)
(* Bounds of the model.                                                    *)
(***************************************************************************)
\* the number of fetch-decode-execute cycles a run of the model follows
MaxCycles == 6

(***************************************************************************)
(* Constants of the program.                                               *)
(***************************************************************************)
KEYBOARD_STATUS_REGISTER == 65024
KEYBOARD_DATA_REGISTER == 65026

\* enum Registers: the index of each slot of VM.registers
R0 == 0
R7 == 7
ProgramCounter == 8
Condition == 9
Count == 10

\* enum OperationCodes in declaration order: discriminant k is element k + 1
OperationCodes ==
    << "Branch", "Add", "Load", "Store", "JumpRegister", "And", "LoadRegister",
       "StoreRegister", "Unused", "Not", "LoadIndirect", "StoreIndirect", "Jump",
       "Reserved", "LoadEffectiveAddress", "Trap" >>

TRAP_GET_CHARACTER == 32
TRAP_OUT == 33
TRAP_PUTS == 34
TRAP_IN == 35
TRAP_PUTS_TWO == 36
TRAP_HALT == 37

POSITIVE == 1
ZERO == 2
NEGATIVE == 4

\* the values of a u16 are 0 .. U16Max
U16Max == 65535
\* start_position of VM::start
StartPosition == 12288

(***************************************************************************)
(* u16 arithmetic as rustc compiles it.                                    *)
(***************************************************************************)
Pow2(n) == 2 ^ n

\* x >> n on u16
Shr(x, n) == x \div Pow2(n)

\* x << n on u16: the bits shifted out are dropped
Shl(x, n) == (x * Pow2(n)) % (U16Max + 1)

\* a & b on u16
RECURSIVE BitAnd(_, _)
BitAnd(a, b) ==
    IF a = 0 \/ b = 0 THEN 0
    ELSE (IF a % 2 = 1 /\ b % 2 = 1 THEN 1 ELSE 0) + 2 * BitAnd(a \div 2, b \div 2)

\* a | b on u16
RECURSIVE BitOr(_, _)
BitOr(a, b) ==
    IF a = 0 THEN b
    ELSE IF b = 0 THEN a
    ELSE (IF a % 2 = 1 \/ b % 2 = 1 THEN 1 ELSE 0) + 2 * BitOr(a \div 2, b \div 2)

\* !a on u16
BitNot(a) == U16Max - a

\* a + b on u16 in a build without overflow checks
wrapping_add(a, b) == (a + b) % (U16Max + 1)

\* sign_extend that always fills from bit 6 upwards
sign_extend_from_bit_six(x, bit_count) ==
    IF BitAnd(Shr(x, bit_count - 1), 1) > 0
    THEN BitOr(x, Shl(U16Max, 6))
    ELSE x

\* sign_extend that tests the bit above the field
sign_extend_testing_next_bit(x, bit_count) ==
    IF BitAnd(Shr(x, bit_count), 1) > 0
    THEN BitOr(x, Shl(U16Max, bit_count))
    ELSE x

\* fn sign_extend(x: u16, bit_count: i32) -> u16
sign_extend(x, bit_count) ==
    IF BitAnd(Shr(x, bit_count - 1), 1) > 0
    THEN BitOr(x, Shl(U16Max, bit_count))
    ELSE x

\* fn swap_endian(original: [u8; 2]) -> u16
swap_endian(original) == original[2] + Shl(original[1], 8)

(***************************************************************************)
(* The memory array [u16; 65536], zero-initialised by VM::new, is kept as  *)
(* the function of its non-zero cells: a cell outside the domain holds 0.  *)
(***************************************************************************)
MemGet(mem, a) == IF a \in DOMAIN mem THEN mem[a] ELSE 0

MemSet(mem, a, v) ==
    IF v = 0
    THEN [x \in DOMAIN mem \ {a} |-> mem[x]]
    ELSE [x \in DOMAIN mem \cup {a} |-> IF x = a THEN v ELSE mem[x]]

EmptyMemory == [x \in {} |-> 0]

VARIABLES
    memory,           \* VM.memory
    registers,        \* VM.registers
    running,          \* VM.running
    pc,               \* where the control of VM::start is
    error,            \* the panic that ended the run, "" while there is none
    image,            \* the bytes of the program file
    program,          \* the bytes of the file not read yet
    buffer,           \* read_program's buffer
    origin,           \* read_program's origin
    stdin,            \* the bytes of standard input not consumed yet
    typed,            \* how many of them have arrived and can be read at once
    stdout,           \* the characters printed so far
    overflow_checks,  \* whether the build checks u16 additions for overflow
    cycles,           \* the number of fetch cycles begun
    extension,        \* a call of sign_extend on its own: x, bit_count and result
    draft,            \* what a pass of the draft of main.rs makes of the same machine
    fetched,          \* the cycle last run: its address, word and decoding
    pre               \* the machine as it was when that cycle began

vars ==
    << memory, registers, running, pc, error, image, program, buffer, origin,
       stdin, typed, stdout, overflow_checks, cycles, extension, draft,
       fetched, pre >>

(***************************************************************************)
(* The handlers, as operators on the machine m: a record of the fields of  *)
(* the VM and of the two standard streams, and of the panic that ended the *)
(* run.  A panic leaves the machine as it is at the panicking expression.  *)
(* blocked names the call that waits for a byte of standard input that has *)
(* not arrived: the handler does not go on before the byte is there.       *)
(***************************************************************************)
Machine ==
    [ registers |-> registers, memory |-> memory, running |-> running,
      stdin |-> stdin, typed |-> typed, stdout |-> stdout, error |-> error,
      blocked |-> "" ]

Panic(m, message) == [m EXCEPT !.error = message]

\* whether a + b on u16 panics in this build
overflows(a, b) == overflow_checks /\ a + b > U16Max

OverflowMessage == "attempt to add with overflow"

\* a read of the input that leaves the byte it returns in the stream
stdin_next_leaving_byte(m, caller) ==
    IF m.stdin = << >> THEN [m |-> m, byte |-> -1]
    ELSE IF m.typed = 0 \/ m.blocked # ""
    THEN [m |-> [m EXCEPT !.blocked = IF @ = "" THEN caller ELSE @], byte |-> -1]
    ELSE [m |-> m, byte |-> Head(m.stdin)]

\* std::io::stdin().bytes().next() called by caller: the machine after the call
\* and the byte read, -1 for None.  The call returns None at the end of the
\* input, returns the next byte when one has arrived, and waits otherwise.
stdin_next(m, caller) ==
    IF m.stdin = << >> THEN [m |-> m, byte |-> -1]
    ELSE IF m.typed = 0 \/ m.blocked # ""
    THEN [m |-> [m EXCEPT !.blocked = IF @ = "" THEN caller ELSE @], byte |-> -1]
    ELSE [m |-> [m EXCEPT !.stdin = Tail(@), !.typed = @ - 1], byte |-> Head(m.stdin)]

\* print!("{}", c as u8 as char)
print(m, c) == [m EXCEPT !.stdout = Append(@, c % 256)]

\* fn mem_write(&mut self, adress: u16, val: u16)
mem_write(m, adress, val) == [m EXCEPT !.memory = MemSet(@, adress, val)]

\* mem_read that polls the keyboard on a read of the data register as well
mem_read_polling_data_register(m, address) ==
    LET next == stdin_next(m, "mem_read")
        character == next.byte
        polled ==
            IF address \notin { KEYBOARD_STATUS_REGISTER, KEYBOARD_DATA_REGISTER } THEN m
            ELSE IF next.m.blocked # "" THEN next.m
            ELSE IF character = -1
            THEN [next.m EXCEPT !.memory = MemSet(@, KEYBOARD_STATUS_REGISTER, 0)]
            ELSE IF character # 10
            THEN [next.m EXCEPT !.memory =
                     MemSet(MemSet(@, KEYBOARD_STATUS_REGISTER, Shl(1, 15)),
                            KEYBOARD_DATA_REGISTER, character)]
            ELSE [next.m EXCEPT !.memory = MemSet(@, KEYBOARD_STATUS_REGISTER, 0)]
    IN  [m |-> polled, val |-> MemGet(polled.memory, address)]

\* fn mem_read(&mut self, address: u16) -> u16: the machine after the read and
\* the value read.
mem_read(m, address) ==
    LET next == stdin_next(m, "mem_read")
        character == next.byte
        polled ==
            IF address # KEYBOARD_STATUS_REGISTER THEN m
            ELSE IF next.m.blocked # "" THEN next.m
            ELSE IF character = -1
            THEN [next.m EXCEPT !.memory = MemSet(@, KEYBOARD_STATUS_REGISTER, 0)]
            ELSE IF character # 10
            THEN [next.m EXCEPT !.memory =
                     MemSet(MemSet(@, KEYBOARD_STATUS_REGISTER, Shl(1, 15)),
                            KEYBOARD_DATA_REGISTER, character)]
            ELSE [next.m EXCEPT !.memory = MemSet(@, KEYBOARD_STATUS_REGISTER, 0)]
    IN  [m |-> polled, val |-> MemGet(polled.memory, address)]

\* update_flags that does not look at the sign bit
update_flags_without_sign(m, r) ==
    LET r_val == m.registers[r]
    IN  [m EXCEPT !.registers[Condition] = IF r_val = 0 THEN ZERO ELSE POSITIVE]

\* fn update_flags(&mut self, r: u16)
update_flags(m, r) ==
    LET r_val == m.registers[r]
    IN  [m EXCEPT !.registers[Condition] =
            IF r_val = 0 THEN ZERO
            ELSE IF Shr(r_val, 15) > 0 THEN NEGATIVE
            ELSE POSITIVE]

\* fn add(&mut self, instr: u16)
add(m, instr) ==
    LET r0 == BitAnd(Shr(instr, 9), 7)
        r1 == BitAnd(Shr(instr, 6), 7)
        imm_flag == BitAnd(Shr(instr, 5), 1)
        operand == IF imm_flag > 0
                   THEN sign_extend(BitAnd(instr, 31), 5)
                   ELSE m.registers[BitAnd(instr, 7)]
    IN  IF overflows(m.registers[r1], operand) THEN Panic(m, OverflowMessage)
        ELSE update_flags(
                 [m EXCEPT !.registers[r0] = wrapping_add(m.registers[r1], operand)], r0)

\* and that always takes its second operand from the register in bits 2-0
and_without_immediate(m, instr) ==
    LET r0 == BitAnd(Shr(instr, 9), 7)
        r1 == BitAnd(Shr(instr, 6), 7)
        operand == m.registers[BitAnd(instr, 7)]
    IN  update_flags([m EXCEPT !.registers[r0] = BitAnd(m.registers[r1], operand)], r0)

\* fn and(&mut self, instr: u16)
and(m, instr) ==
    LET r0 == BitAnd(Shr(instr, 9), 7)
        r1 == BitAnd(Shr(instr, 6), 7)
        imm_flag == BitAnd(Shr(instr, 5), 1)
        operand == IF imm_flag > 0
                   THEN sign_extend(BitAnd(instr, 31), 5)
                   ELSE m.registers[BitAnd(instr, 7)]
    IN  update_flags([m EXCEPT !.registers[r0] = BitAnd(m.registers[r1], operand)], r0)

\* fn not(&mut self, instr: u16)
not(m, instr) ==
    LET r0 == BitAnd(Shr(instr, 9), 7)
        r1 == BitAnd(Shr(instr, 6), 7)
    IN  update_flags([m EXCEPT !.registers[r0] = BitNot(m.registers[r1])], r0)

\* fn branch(&mut self, instr: u16)
branch(m, instr) ==
    LET pc_offset == sign_extend(BitAnd(instr, 511), 9)
        cond_flag == BitAnd(Shr(instr, 9), 7)
    IN  IF BitAnd(cond_flag, m.registers[Condition]) > 0
        THEN IF overflows(m.registers[ProgramCounter], pc_offset)
             THEN Panic(m, OverflowMessage)
             ELSE [m EXCEPT !.registers[ProgramCounter] = wrapping_add(@, pc_offset)]
        ELSE m

\* fn jump(&mut self, instr: u16)
jump(m, instr) ==
    LET r1 == BitAnd(Shr(instr, 6), 7)
    IN  [m EXCEPT !.registers[ProgramCounter] = m.registers[r1]]

\* jump_register with the save into R7 made after the jump instead of before
jump_register_saving_late(m, instr) ==
    LET jsr == BitAnd(Shr(instr, 11), 1)
        pc_offset == sign_extend(BitAnd(instr, 2047), 11)
        jumped == IF jsr > 0
                  THEN IF overflows(m.registers[ProgramCounter], pc_offset)
                       THEN Panic(m, OverflowMessage)
                       ELSE [m EXCEPT !.registers[ProgramCounter] = wrapping_add(@, pc_offset)]
                  ELSE [m EXCEPT !.registers[ProgramCounter] = BitAnd(Shr(instr, 6), 7)]
    IN  IF jumped.error # "" THEN jumped
        ELSE [jumped EXCEPT !.registers[R7] = jumped.registers[ProgramCounter]]

\* fn jump_register(&mut self, instr: u16)
jump_register(m, instr) ==
    LET saved == [m EXCEPT !.registers[R7] = m.registers[ProgramCounter]]
        jsr == BitAnd(Shr(instr, 11), 1)
        pc_offset == sign_extend(BitAnd(instr, 2047), 11)
    IN  IF jsr > 0
        THEN IF overflows(saved.registers[ProgramCounter], pc_offset)
             THEN Panic(saved, OverflowMessage)
             ELSE [saved EXCEPT !.registers[ProgramCounter] = wrapping_add(@, pc_offset)]
        ELSE [saved EXCEPT !.registers[ProgramCounter] = BitAnd(Shr(instr, 6), 7)]

\* fn load(&mut self, instr: u16)
load(m, instr) ==
    LET r0 == BitAnd(Shr(instr, 9), 7)
        pc_offset == sign_extend(BitAnd(instr, 511), 9)
    IN  IF overflows(m.registers[ProgramCounter], pc_offset) THEN Panic(m, OverflowMessage)
        ELSE LET loaded == mem_read(m, wrapping_add(m.registers[ProgramCounter], pc_offset))
             IN  update_flags([loaded.m EXCEPT !.registers[r0] = loaded.val], r0)

\* fn load_indirect(&mut self, instr: u16)
load_indirect(m, instr) ==
    LET r0 == BitAnd(Shr(instr, 9), 7)
        pc_offset == sign_extend(BitAnd(instr, 511), 9)
    IN  IF overflows(m.registers[ProgramCounter], pc_offset) THEN Panic(m, OverflowMessage)
        ELSE LET read == mem_read(m, wrapping_add(m.registers[ProgramCounter], pc_offset))
                 second == mem_read(read.m, read.val)
             IN  update_flags([second.m EXCEPT !.registers[r0] = second.val], r0)

\* fn load_register(&mut self, instr: u16)
load_register(m, instr) ==
    LET offset == sign_extend(BitAnd(instr, 63), 6)
        dr == BitAnd(Shr(instr, 9), 7)
        baser == BitAnd(Shr(instr, 6), 7)
    IN  IF overflows(m.registers[baser], offset) THEN Panic(m, OverflowMessage)
        ELSE LET loaded == mem_read(m, wrapping_add(m.registers[baser], offset))
             IN  update_flags([loaded.m EXCEPT !.registers[dr] = loaded.val], dr)

\* fn load_effective_address(&mut self, instr: u16)
load_effective_address(m, instr) ==
    LET r0 == BitAnd(Shr(instr, 9), 7)
        pc_offset == sign_extend(BitAnd(instr, 511), 9)
    IN  IF overflows(m.registers[ProgramCounter], pc_offset) THEN Panic(m, OverflowMessage)
        ELSE update_flags(
                 [m EXCEPT !.registers[r0] =
                      wrapping_add(m.registers[ProgramCounter], pc_offset)], r0)

\* fn store(&mut self, instr: u16)
store(m, instr) ==
    LET sr == BitAnd(Shr(instr, 9), 7)
        pc_offset == sign_extend(BitAnd(instr, 511), 9)
    IN  IF overflows(m.registers[ProgramCounter], pc_offset) THEN Panic(m, OverflowMessage)
        ELSE mem_write(m, wrapping_add(m.registers[ProgramCounter], pc_offset),
                       m.registers[sr])

\* fn store_indirect(&mut self, instr: u16)
store_indirect(m, instr) ==
    LET sr == BitAnd(Shr(instr, 9), 7)
        pc_offset == sign_extend(BitAnd(instr, 511), 9)
    IN  IF overflows(m.registers[ProgramCounter], pc_offset) THEN Panic(m, OverflowMessage)
        ELSE LET read == mem_read(m, wrapping_add(m.registers[ProgramCounter], pc_offset))
             IN  mem_write(read.m, read.val, read.m.registers[sr])

\* store_register that goes on to set the flags from the register stored
store_register_setting_flags(m, instr) ==
    LET sr == BitAnd(Shr(instr, 9), 7)
        offset == sign_extend(BitAnd(instr, 63), 6)
        baser == BitAnd(Shr(instr, 6), 7)
    IN  IF overflows(m.registers[baser], offset) THEN Panic(m, OverflowMessage)
        ELSE update_flags(mem_write(m, wrapping_add(m.registers[baser], offset),
                                    m.registers[sr]), sr)

\* fn store_register(&mut self, instr: u16)
store_register(m, instr) ==
    LET sr == BitAnd(Shr(instr, 9), 7)
        offset == sign_extend(BitAnd(instr, 63), 6)
        baser == BitAnd(Shr(instr, 6), 7)
    IN  IF overflows(m.registers[baser], offset) THEN Panic(m, OverflowMessage)
        ELSE mem_write(m, wrapping_add(m.registers[baser], offset), m.registers[sr])

(***************************************************************************)
(* The trap routines.                                                      *)
(***************************************************************************)
\* get_character that reads 0 at the end of the input
get_character_reading_zero_at_end(m) ==
    LET next == stdin_next(m, "get_character")
    IN  IF next.m.blocked # "" THEN next.m
        ELSE IF next.byte = -1 THEN [m EXCEPT !.registers[R0] = 0]
        ELSE [next.m EXCEPT !.registers[R0] = BitAnd(next.byte, 255)]

\* fn get_character(&mut self)
get_character(m) ==
    LET next == stdin_next(m, "get_character")
    IN  IF next.m.blocked # "" THEN next.m
        ELSE IF next.byte = -1 THEN Panic(m, "Could not read character!")
        ELSE [next.m EXCEPT !.registers[R0] = BitAnd(next.byte, 255)]

\* fn out(&mut self)
out(m) == print(m, m.registers[R0])

\* the loop of fn puts(&mut self), entered with addr; it reads self.memory itself
RECURSIVE puts_from(_, _)
puts_from(m, addr) ==
    LET character == MemGet(m.memory, addr)
    IN  IF character > 0
        THEN LET printed == print(m, BitAnd(character, 255))
             IN  IF overflows(addr, 1) THEN Panic(printed, OverflowMessage)
                 ELSE puts_from(printed, wrapping_add(addr, 1))
        ELSE m

\* fn puts(&mut self)
puts(m) == puts_from(m, m.registers[R0])

\* "Enter a character: " and "Goodbye!\n", as the characters printed
PromptText == << 69, 110, 116, 101, 114, 32, 97, 32, 99, 104, 97, 114, 97, 99, 116,
                 101, 114, 58, 32 >>
GoodbyeText == << 71, 111, 111, 100, 98, 121, 101, 33, 10 >>

\* fn scan(&mut self)
scan(m) == get_character([m EXCEPT !.stdout = @ \o PromptText])

\* the loop of fn putsp(&mut self), entered with addr
RECURSIVE putsp_from(_, _)
putsp_from(m, addr) ==
    LET character == MemGet(m.memory, addr)
        second_part == BitAnd(Shr(character, 8), 255)
    IN  IF character > 0
        THEN LET first == print(m, BitAnd(character, 255))
             IN  IF second_part = 0 THEN first
                 ELSE LET both == print(first, second_part)
                      IN  IF overflows(addr, 1) THEN Panic(both, OverflowMessage)
                          ELSE putsp_from(both, wrapping_add(addr, 1))
        ELSE m

\* fn putsp(&mut self)
putsp(m) == putsp_from(m, m.registers[R0])

\* halt that prints its farewell and leaves the running flag set
halt_without_stop(m) == [m EXCEPT !.stdout = @ \o GoodbyeText]

\* fn halt(&mut self)
halt(m) == [m EXCEPT !.stdout = @ \o GoodbyeText, !.running = FALSE]

\* the trap code that fn trap matches on
trap_code(instr) == BitAnd(instr, 255)

\* trap with a catch-all arm that does nothing
trap_ignoring_unknown(m, instr) ==
    LET code == trap_code(instr)
    IN  CASE code = TRAP_GET_CHARACTER -> get_character(m)
          [] code = TRAP_OUT -> out(m)
          [] code = TRAP_PUTS -> puts(m)
          [] code = TRAP_IN -> scan(m)
          [] code = TRAP_PUTS_TWO -> putsp(m)
          [] code = TRAP_HALT -> halt(m)
          [] OTHER -> m

\* fn trap(&mut self, instr: u16)
trap(m, instr) ==
    LET code == trap_code(instr)
    IN  CASE code = TRAP_GET_CHARACTER -> get_character(m)
          [] code = TRAP_OUT -> out(m)
          [] code = TRAP_PUTS -> puts(m)
          [] code = TRAP_IN -> scan(m)
          [] code = TRAP_PUTS_TWO -> putsp(m)
          [] code = TRAP_HALT -> halt(m)
          [] OTHER -> Panic(m, "Unknown trap code")

(***************************************************************************)
(* Decode and dispatch.                                                    *)
(***************************************************************************)
\* fn from_integer(x: u16) -> OperationCodes: the transmute of x as u8, which
\* names a variant for each of the sixteen values instr >> 12 can take
from_integer(x) == OperationCodes[x + 1]

\* the match with a catch-all arm that does nothing
dispatch_ignoring_unknown(m, instr) ==
    LET op == from_integer(Shr(instr, 12))
    IN  CASE op = "Add" -> add(m, instr)
          [] op = "And" -> and(m, instr)
          [] op = "Not" -> not(m, instr)
          [] op = "Branch" -> branch(m, instr)
          [] op = "Jump" -> jump(m, instr)
          [] op = "JumpRegister" -> jump_register(m, instr)
          [] op = "Load" -> load(m, instr)
          [] op = "LoadIndirect" -> load_indirect(m, instr)
          [] op = "LoadRegister" -> load_register(m, instr)
          [] op = "LoadEffectiveAddress" -> load_effective_address(m, instr)
          [] op = "Store" -> store(m, instr)
          [] op = "StoreIndirect" -> store_indirect(m, instr)
          [] op = "StoreRegister" -> store_register(m, instr)
          [] op = "Trap" -> trap(m, instr)
          [] OTHER -> m

\* the match of VM::start on the decoded operation
dispatch(m, instr) ==
    LET op == from_integer(Shr(instr, 12))
    IN  CASE op = "Add" -> add(m, instr)
          [] op = "And" -> and(m, instr)
          [] op = "Not" -> not(m, instr)
          [] op = "Branch" -> branch(m, instr)
          [] op = "Jump" -> jump(m, instr)
          [] op = "JumpRegister" -> jump_register(m, instr)
          [] op = "Load" -> load(m, instr)
          [] op = "LoadIndirect" -> load_indirect(m, instr)
          [] op = "LoadRegister" -> load_register(m, instr)
          [] op = "LoadEffectiveAddress" -> load_effective_address(m, instr)
          [] op = "Store" -> store(m, instr)
          [] op = "StoreIndirect" -> store_indirect(m, instr)
          [] op = "StoreRegister" -> store_register(m, instr)
          [] op = "Trap" -> trap(m, instr)
          [] OTHER -> Panic(m, "Unknown instruction")

\* One pass of the body of the while loop of VM::start on machine m: the fetch,
\* the increment of the program counter, the decoding and the handler.
\* decoded tells whether the pass came to the match: it does not when the
\* increment panics.
cycle(m) ==
    LET at == m.registers[ProgramCounter]
        fetch == mem_read(m, at)
        instr == fetch.val
    IN  IF overflows(at, 1)
        THEN [m |-> Panic(fetch.m, OverflowMessage), addr |-> at, instr |-> instr,
              decoded |-> FALSE]
        ELSE [m |-> dispatch([fetch.m EXCEPT !.registers[ProgramCounter] =
                                  wrapping_add(at, 1)], instr),
              addr |-> at, instr |-> instr, decoded |-> TRUE]

\* the call that the pass of the loop at hand is waiting in, if it is: the
\* call of stdin().bytes().next() that has not returned
waiting == IF pc = "running" /\ running THEN cycle(Machine).m.blocked ELSE ""

(***************************************************************************)
(* The draft engine of main.rs, as operators on a machine d of its own: a  *)
(* record of its registers (ten slots), its memory (65535 cells), the two  *)
(* standard streams, the panic that ended it and whether the process has   *)
(* exited.  Its names carry the prefix main_.                              *)
(***************************************************************************)
\* fn sign_extend(x: u16, bit_count: i32) -> u16 of main.rs
main_sign_extend(x, bit_count) ==
    IF BitAnd(Shr(x, bit_count - 1), 1) > 0
    THEN BitOr(x, Shl(U16Max, bit_count))
    ELSE x

\* self.memory[index] of main.rs: the array has u16::MAX cells, 0 .. 65534
main_in_bounds(index) == index < U16Max

BoundsMessage == "index out of bounds"

\* fn mem_write(&mut self, adress: u16, val: u16) of main.rs
main_mem_write(d, adress, val) ==
    IF main_in_bounds(adress) THEN [d EXCEPT !.memory = MemSet(@, adress, val)]
    ELSE Panic(d, BoundsMessage)

\* fn mem_read(&mut self, address: u16) -> u16 of main.rs: 0, "TODO!"
main_mem_read(d, address) == [m |-> d, val |-> 0]

\* fn update_flags(&mut self, r: u16) of main.rs
main_update_flags(d, r) ==
    LET r_val == d.registers[r]
    IN  [d EXCEPT !.registers[Condition] =
            IF r_val > 0 THEN ZERO
            ELSE IF Shr(r_val, 15) > 0 THEN NEGATIVE
            ELSE POSITIVE]

\* fn add(&mut self, instr: u16) of main.rs
main_add(d, instr) ==
    LET r0 == BitAnd(Shr(instr, 9), 7)
        r1 == BitAnd(Shr(instr, 6), 7)
        imm_flag == BitAnd(Shr(instr, 5), 1)
        operand == IF imm_flag > 0
                   THEN main_sign_extend(BitAnd(instr, 31), 5)
                   ELSE d.registers[BitAnd(instr, 7)]
    IN  IF overflows(d.registers[r1], operand) THEN Panic(d, OverflowMessage)
        ELSE main_update_flags(
                 [d EXCEPT !.registers[r0] = wrapping_add(d.registers[r1], operand)], r0)

\* fn and(&mut self, instr: u16) of main.rs
main_and(d, instr) ==
    LET r0 == BitAnd(Shr(instr, 9), 7)
        r1 == BitAnd(Shr(instr, 6), 7)
        imm_flag == BitAnd(Shr(instr, 5), 1)
        operand == IF imm_flag > 0
                   THEN main_sign_extend(BitAnd(instr, 31), 5)
                   ELSE d.registers[BitAnd(instr, 7)]
    IN  main_update_flags(
            [d EXCEPT !.registers[r0] = BitAnd(d.registers[r1], operand)], r0)

\* fn not(&mut self, instr: u16) of main.rs
main_not(d, instr) ==
    LET r0 == BitAnd(Shr(instr, 9), 7)
        r1 == BitAnd(Shr(instr, 6), 7)
    IN  main_update_flags([d EXCEPT !.registers[r0] = BitNot(d.registers[r1])], r0)

\* fn br(&mut self, instr: u16) of main.rs
main_br(d, instr) ==
    LET pc_offset == main_sign_extend(BitAnd(instr, 511), 9)
        cond_flag == BitAnd(Shr(instr, 9), 7)
    IN  IF BitAnd(cond_flag, d.registers[Condition]) > 0
        THEN IF overflows(d.registers[ProgramCounter], pc_offset)
             THEN Panic(d, OverflowMessage)
             ELSE [d EXCEPT !.registers[ProgramCounter] = wrapping_add(@, pc_offset)]
        ELSE d

\* fn jmp(&mut self, instr: u16) of main.rs
main_jmp(d, instr) ==
    [d EXCEPT !.registers[ProgramCounter] = d.registers[BitAnd(Shr(instr, 6), 7)]]

\* fn jsr(&mut self, instr: u16) of main.rs: R7 is not written
main_jsr(d, instr) ==
    LET jsr == BitAnd(Shr(instr, 11), 1)
        pc_offset == main_sign_extend(BitAnd(instr, 2047), 11)
    IN  IF jsr > 0
        THEN IF overflows(d.registers[ProgramCounter], pc_offset)
             THEN Panic(d, OverflowMessage)
             ELSE [d EXCEPT !.registers[ProgramCounter] = wrapping_add(@, pc_offset)]
        ELSE [d EXCEPT !.registers[ProgramCounter] = BitAnd(Shr(instr, 6), 7)]

\* fn ld(&mut self, instr: u16) of main.rs
main_ld(d, instr) ==
    LET r0 == BitAnd(Shr(instr, 9), 7)
        pc_offset == main_sign_extend(BitAnd(instr, 511), 9)
    IN  IF overflows(d.registers[ProgramCounter], pc_offset) THEN Panic(d, OverflowMessage)
        ELSE LET read == main_mem_read(d, wrapping_add(d.registers[ProgramCounter], pc_offset))
             IN  main_update_flags([read.m EXCEPT !.registers[r0] = read.val], r0)

\* fn ldi(&mut self, instr: u16) of main.rs
main_ldi(d, instr) ==
    LET r0 == BitAnd(Shr(instr, 9), 7)
        pc_offset == main_sign_extend(BitAnd(instr, 511), 9)
    IN  IF overflows(d.registers[ProgramCounter], pc_offset) THEN Panic(d, OverflowMessage)
        ELSE LET read == main_mem_read(d, wrapping_add(d.registers[ProgramCounter], pc_offset))
                 second == main_mem_read(read.m, read.val)
             IN  main_update_flags([second.m EXCEPT !.registers[r0] = second.val], r0)

\* fn ldr(&mut self, instr: u16) of main.rs
main_ldr(d, instr) ==
    LET offset == main_sign_extend(BitAnd(instr, 63), 6)
        dr == BitAnd(Shr(instr, 9), 7)
        baser == BitAnd(Shr(instr, 6), 7)
    IN  IF overflows(d.registers[baser], offset) THEN Panic(d, OverflowMessage)
        ELSE LET read == main_mem_read(d, wrapping_add(d.registers[baser], offset))
             IN  main_update_flags([read.m EXCEPT !.registers[dr] = read.val], dr)

\* fn lea(&mut self, instr: u16) of main.rs
main_lea(d, instr) ==
    LET r0 == BitAnd(Shr(instr, 9), 7)
        pc_offset == main_sign_extend(BitAnd(instr, 511), 9)
    IN  IF overflows(d.registers[ProgramCounter], pc_offset) THEN Panic(d, OverflowMessage)
        ELSE main_update_flags(
                 [d EXCEPT !.registers[r0] =
                      wrapping_add(d.registers[ProgramCounter], pc_offset)], r0)

\* fn st(&mut self, instr: u16) of main.rs
main_st(d, instr) ==
    LET sr == BitAnd(Shr(instr, 9), 7)
        pc_offset == main_sign_extend(BitAnd(instr, 511), 9)
    IN  IF overflows(d.registers[ProgramCounter], pc_offset) THEN Panic(d, OverflowMessage)
        ELSE main_mem_write(d, wrapping_add(d.registers[ProgramCounter], pc_offset),
                            d.registers[sr])

\* fn sti(&mut self, instr: u16) of main.rs
main_sti(d, instr) ==
    LET sr == BitAnd(Shr(instr, 9), 7)
        pc_offset == main_sign_extend(BitAnd(instr, 511), 9)
    IN  IF overflows(d.registers[ProgramCounter], pc_offset) THEN Panic(d, OverflowMessage)
        ELSE LET read == main_mem_read(d, wrapping_add(d.registers[ProgramCounter], pc_offset))
             IN  main_mem_write(read.m, read.val, read.m.registers[sr])

\* fn str(&mut self, instr: u16) of main.rs
main_str(d, instr) ==
    LET sr == BitAnd(Shr(instr, 9), 7)
        offset == main_sign_extend(BitAnd(instr, 63), 6)
        baser == BitAnd(Shr(instr, 6), 7)
    IN  IF overflows(d.registers[baser], offset) THEN Panic(d, OverflowMessage)
        ELSE main_mem_write(d, wrapping_add(d.registers[baser], offset), d.registers[sr])

\* fn get_character(&mut self) of main.rs
main_get_character(d) ==
    LET next == stdin_next(d, "get_character")
    IN  IF next.m.blocked # "" THEN next.m
        ELSE IF next.byte = -1 THEN Panic(d, "Could not read character!")
        ELSE [next.m EXCEPT !.registers[R0] = BitAnd(next.byte, 255)]

\* fn out(&mut self) of main.rs
main_out(d) == print(d, d.registers[R0])

\* the loop of fn puts(&mut self) of main.rs, entered with addr
RECURSIVE main_puts_from(_, _)
main_puts_from(d, addr) ==
    IF ~main_in_bounds(addr) THEN Panic(d, BoundsMessage)
    ELSE LET character == MemGet(d.memory, addr)
         IN  IF character # 0
             THEN LET printed == print(d, BitAnd(character, 255))
                  IN  IF overflows(addr, 1) THEN Panic(printed, OverflowMessage)
                      ELSE main_puts_from(printed, wrapping_add(addr, 1))
             ELSE d

\* fn puts(&mut self) of main.rs
main_puts(d) == main_puts_from(d, d.registers[R0])

\* fn scan(&mut self) of main.rs
main_scan(d) == main_get_character([d EXCEPT !.stdout = @ \o PromptText])

\* the loop of fn putsp(&mut self) of main.rs, entered with addr
RECURSIVE main_putsp_from(_, _)
main_putsp_from(d, addr) ==
    IF ~main_in_bounds(addr) THEN Panic(d, BoundsMessage)
    ELSE LET character == MemGet(d.memory, addr)
             second_part == BitAnd(Shr(character, 8), 255)
         IN  IF character # 0
             THEN LET first == print(d, BitAnd(character, 255))
                  IN  IF second_part = 0 THEN first
                      ELSE LET both == print(first, second_part)
                           IN  IF overflows(addr, 1) THEN Panic(both, OverflowMessage)
                               ELSE main_putsp_from(both, wrapping_add(addr, 1))
             ELSE d

\* fn putsp(&mut self) of main.rs
main_putsp(d) == main_putsp_from(d, d.registers[R0])

\* fn halt(&mut self) of main.rs: process::exit(0)
main_halt(d) == [d EXCEPT !.stdout = @ \o GoodbyeText, !.exited = TRUE]

\* fn trap(&mut self, instr: u16) of main.rs: the machines it can leave, as
\* a sequence.
\* trap_codes::from_integer transmutes the code into an enum of the six
\* values 0x20 .. 0x25 and the match has no other arm: for any other code
\* the behaviour is undefined, and the build may run any arm or crash.
main_trap(d, instr) ==
    LET code == BitAnd(instr, 255)
    IN  CASE code = TRAP_GET_CHARACTER -> << main_get_character(d) >>
          [] code = TRAP_OUT -> << main_out(d) >>
          [] code = TRAP_PUTS -> << main_puts(d) >>
          [] code = TRAP_IN -> << main_scan(d) >>
          [] code = TRAP_PUTS_TWO -> << main_putsp(d) >>
          [] code = TRAP_HALT -> << main_halt(d) >>
          [] OTHER -> << main_get_character(d), main_out(d), main_puts(d), main_scan(d),
                         main_putsp(d), main_halt(d),
                         Panic(d, "invalid trap_codes value") >>

\* enum opcodes of main.rs, in the order of its discriminants
opcodes ==
    << "OP_BR", "OP_ADD", "OP_LD", "OP_ST", "OP_JSR", "OP_AND", "OP_LDR", "OP_STR",
       "OP_RTI", "OP_NOT", "OP_LDI", "OP_STI", "OP_JMP", "OP_RES", "OP_LEA", "OP_TRAP" >>

\* fn from_integer(x: u16) -> opcodes of main.rs
main_from_integer(x) == opcodes[x + 1]

\* the body of the loop of VM::start of main.rs after the fetch has returned
\* instr: the increment of the program counter, then the match, whose arms
\* hand op, not instr, to the handlers; the machines it can leave, as a
\* sequence
main_pass(d, instr) ==
    LET op == Shr(instr, 12)
        at == d.registers[ProgramCounter]
        stepped == [d EXCEPT !.registers[ProgramCounter] = wrapping_add(at, 1)]
        code == main_from_integer(op)
    IN  IF overflows(at, 1) THEN << Panic(d, OverflowMessage) >>
        ELSE CASE code = "OP_ADD" -> << main_add(stepped, op) >>
               [] code = "OP_AND" -> << main_and(stepped, op) >>
               [] code = "OP_NOT" -> << main_not(stepped, op) >>
               [] code = "OP_BR" -> << main_br(stepped, op) >>
               [] code = "OP_JMP" -> << main_jmp(stepped, op) >>
               [] code = "OP_JSR" -> << main_jsr(stepped, op) >>
               [] code = "OP_LD" -> << main_ld(stepped, op) >>
               [] code = "OP_LDI" -> << main_ldi(stepped, op) >>
               [] code = "OP_LDR" -> << main_ldr(stepped, op) >>
               [] code = "OP_LEA" -> << main_lea(stepped, op) >>
               [] code = "OP_ST" -> << main_st(stepped, op) >>
               [] code = "OP_STI" -> << main_sti(stepped, op) >>
               [] code = "OP_STR" -> << main_str(stepped, op) >>
               [] code = "OP_TRAP" -> main_trap(stepped, op)
               [] OTHER -> << stepped >>

\* one pass of the loop of VM::start of main.rs on the machine d, fetch
\* included: the machines it can leave, as a sequence
main_cycle(d) ==
    LET fetch == main_mem_read(d, d.registers[ProgramCounter])
    IN  main_pass(fetch.m, fetch.val)

\* reg: [u16; R_COUNT] of struct VM of main.rs, holding the cells 0 .. last
\* of the registers f
RECURSIVE main_reg(_, _)
main_reg(f, last) ==
    IF last = 0 THEN 0 :> f[0] ELSE main_reg(f, last - 1) @@ (last :> f[last])

\* the draft's machine with the registers, the memory and the streams of m
main_machine(m) ==
    [ registers |-> main_reg(m.registers, Condition), memory |-> m.memory,
      stdin |-> m.stdin, typed |-> m.typed, stdout |-> m.stdout, error |-> "",
      blocked |-> "", exited |-> FALSE ]

(***************************************************************************)
(* The program files and the inputs the model runs.                        *)
(***************************************************************************)
\* the bytes of a file holding the big-endian words ws
Bytes(ws) ==
    [i \in 1 .. 2 * Len(ws) |->
        IF i % 2 = 1 THEN Shr(ws[(i + 1) \div 2], 8) ELSE ws[i \div 2] % 256]

\* instruction words, by their fields
Word(op, hi, mid, low) == op * 4096 + hi * 512 + mid * 64 + low
PcRel(op, r, off9) == op * 4096 + r * 512 + (off9 % 512)
Imm5(v) == 32 + (v % 32)
Off6(v) == v % 64
Jsr(off11) == 4 * 4096 + 2048 + (off11 % 2048)
Trap(hi, code) == 15 * 4096 + hi * 256 + code

OpWords ==
    { Word(1, 3, 1, 2), Word(1, 1, 1, 2), Word(1, 3, 1, 24 + 2),
      Word(1, 3, 1, Imm5(1)), Word(1, 3, 1, Imm5(-1)), Word(1, 3, 2, Imm5(15)),
      Word(1, 2, 2, Imm5(-16)),
      Word(5, 3, 1, 2), Word(5, 1, 1, 2), Word(5, 3, 1, Imm5(-1)), Word(5, 3, 2, Imm5(0)),
      Word(5, 3, 1, Imm5(10)),
      Word(9, 3, 1, 63), Word(9, 1, 1, 0), Word(9, 3, 2, 21),
      PcRel(0, 7, 2), PcRel(0, 2, 2), PcRel(0, 4, -1), PcRel(0, 1, -3), PcRel(0, 6, 255),
      PcRel(0, 0, 5), PcRel(0, 5, -256),
      Word(12, 0, 1, 0), Word(12, 0, 7, 0), Word(12, 0, 2, 0),
      Jsr(2), Jsr(-2), Jsr(1023), Jsr(-1024), Word(4, 0, 1, 0), Word(4, 0, 2, 0),
      Word(4, 3, 5, 63),
      PcRel(2, 3, 1), PcRel(2, 3, -3), PcRel(10, 3, 1), PcRel(10, 3, 2),
      PcRel(10, 3, -2),
      Word(6, 3, 1, Off6(0)), Word(6, 3, 1, Off6(-1)), Word(6, 3, 2, Off6(31)),
      PcRel(14, 3, 1), PcRel(14, 3, -1), PcRel(14, 3, -256),
      PcRel(3, 1, 2), PcRel(3, 2, -1), PcRel(11, 2, 1), PcRel(11, 1, 2),
      Word(7, 2, 1, Off6(0)), Word(7, 2, 1, Off6(1)), Word(7, 1, 2, Off6(-1)),
      Trap(0, TRAP_GET_CHARACTER), Trap(0, TRAP_OUT), Trap(0, TRAP_PUTS), Trap(0, TRAP_IN),
      Trap(0, TRAP_PUTS_TWO), Trap(0, TRAP_HALT), Trap(1, TRAP_HALT), Trap(15, TRAP_OUT),
      Trap(0, 153), Trap(0, 0), Trap(5, 38), Trap(0, 31), Trap(15, 255),
      Word(8, 0, 0, 0), Word(8, 7, 7, 63), Word(13, 0, 0, 0), Word(13, 1, 4, 35) }

DataWords == { 0, 1, 32767, 32768, 65535, KEYBOARD_STATUS_REGISTER }

Halt == Trap(0, TRAP_HALT)

\* R1 := d1 and R2 := d2 (the flags are those of d2), then op, then HALT
OperandPrograms ==
    { << StartPosition, PcRel(2, 1, 3), PcRel(2, 2, 3), op, Halt, d1, d2 >> :
        op \in OpWords, d1 \in DataWords, d2 \in DataWords }

\* op as the first instruction, on the machine VM::new made
FirstPrograms == { << StartPosition, op, Halt, 18505, 0 >> : op \in OpWords }

\* op stored to address at and jumped to
PlacedPrograms ==
    { << StartPosition, PcRel(2, 0, 4), PcRel(2, 1, 4), Word(7, 1, 0, Off6(0)),
         Word(12, 0, 0, 0), 0, at, op >> :
        op \in OpWords, at \in { U16Max, KEYBOARD_STATUS_REGISTER } }

\* LD, LDI and STI of the cell 0xFE00, stored to the address before it and
\* jumped to
NearStatusPrograms ==
    { << StartPosition, PcRel(2, 0, 4), PcRel(2, 1, 4), Word(7, 1, 0, Off6(0)),
         Word(12, 0, 0, 0), 0, KEYBOARD_STATUS_REGISTER - 1, op >> :
        op \in { PcRel(2, 3, 0), PcRel(10, 3, 0), PcRel(11, 1, 0) } }

\* the strings that PUTS and PUTSP walk: words with and without a high byte,
\* with a low byte of zero, and a zero word first and in the middle
Strings ==
    { << 72, 73, 0 >>, << 0, 72 >>, << 72, 0, 73 >>, << 18505, 74, 75 >>,
      << 18505, 19274, 0 >>, << 16640, 66, 0 >>, << 72, 256, 73 >>, << 200, 51400 >> }

\* R0 := the address of the string that follows, then the trap, then HALT
StringPrograms ==
    { << StartPosition, PcRel(2, 0, 2), Trap(0, code), Halt, StartPosition + 4 >> \o str :
        code \in { TRAP_PUTS, TRAP_PUTS_TWO }, str \in Strings }

\* R0 := at and memory[at] := at, then the trap on the string at at, then HALT
FarStringPrograms ==
    { << StartPosition, PcRel(2, 0, 3), PcRel(11, 0, 2), Trap(0, code), Halt, at >> :
        code \in { TRAP_PUTS, TRAP_PUTS_TWO },
        at \in { U16Max, KEYBOARD_STATUS_REGISTER } }

\* what reads and writes the keyboard cells and the input: the poll of the
\* status cell, the read of the data cell, GETC, and the writes of the two
\* cells, all with R1 = 0xFE00
KeyboardWords ==
    { Word(6, 3, 1, Off6(0)), Word(6, 4, 1, Off6(2)), Trap(0, TRAP_GET_CHARACTER),
      Word(7, 1, 1, Off6(0)), Word(7, 1, 1, Off6(2)) }

\* R1 := 0xFE00, then three of them, then HALT
KeyboardPrograms ==
    { << StartPosition, PcRel(2, 1, 4), first, second, third, Halt,
         KEYBOARD_STATUS_REGISTER >> :
        first \in KeyboardWords, second \in KeyboardWords, third \in KeyboardWords }

KeyboardInputs == { << 65 >>, << 10, 66 >>, << 65, 66, 10 >> }

\* files of any origin, whole and cut short
LoaderWords ==
    { << o >> : o \in { StartPosition, U16Max, U16Max - 1, 0 } }
    \cup { << o, w >> : o \in { StartPosition, U16Max, U16Max - 1, 0 }, w \in { 4660, Halt } }
    \cup { << o, w, v >> : o \in { StartPosition, U16Max, U16Max - 1 },
                           w \in { 4660, Halt }, v \in { 22136, 0 } }

Prefixes(bytes) == { SubSeq(bytes, 1, n) : n \in 0 .. Len(bytes) }

LoaderFiles == UNION { Prefixes(Bytes(ws)) : ws \in LoaderWords }

Inputs == { << >>, << 65 >>, << 10, 66 >>, << 200, 10 >> }

(***************************************************************************)
(* VM::new, then VM::start.                                                *)
(***************************************************************************)
\* no pass of the draft: own is for the machines a pass of the draft can
\* leave, fed for those it can leave when its fetch is given the word that
\* the engine has fetched
NoDraft == [own |-> << >>, fed |-> << >>]

\* no call of sign_extend on its own
NoExtension == [x |-> 0, bit_count |-> 0, y |-> -1]

NoCycle == [addr |-> 0, instr |-> 0, decoded |-> FALSE]

Snapshot(m) ==
    [registers |-> m.registers, memory |-> m.memory, stdin |-> m.stdin, stdout |-> m.stdout]

Init ==
    /\ memory = EmptyMemory
    /\ registers = [r \in 0 .. Count |-> 0]
    /\ running = FALSE
    /\ pc = "new"
    /\ error = ""
    /\ \/ /\ image \in { Bytes(ws) : ws \in OperandPrograms }
          /\ stdin = << 65, 10 >>
       \/ /\ image \in { Bytes(ws) : ws \in FirstPrograms \cup PlacedPrograms
                                        \cup NearStatusPrograms \cup StringPrograms
                                        \cup FarStringPrograms }
                      \cup LoaderFiles
          /\ stdin \in Inputs
       \/ /\ image \in { Bytes(ws) : ws \in KeyboardPrograms }
          /\ stdin \in KeyboardInputs
    /\ typed \in { 0, Len(stdin) }
    /\ program = image
    /\ buffer = << 0, 0 >>
    /\ origin = 0
    /\ stdout = << >>
    /\ overflow_checks \in BOOLEAN
    /\ cycles = 0
    /\ extension = NoExtension
    /\ draft = NoDraft
    /\ fetched = NoCycle
    /\ pre = [registers |-> registers, memory |-> memory, stdin |-> stdin, stdout |-> stdout]

\* File::read into a buffer of two bytes: the count read, the buffer and the rest
file_read(file, buf) ==
    LET n == IF Len(file) < 2 THEN Len(file) ELSE 2
    IN  [n |-> n,
         buffer |-> [i \in 1 .. 2 |-> IF i <= n THEN file[i] ELSE buf[i]],
         rest |-> SubSeq(file, n + 1, Len(file))]

\* read_program up to its loop: the origin is read and the count read is dropped
ReadOrigin ==
    /\ pc = "new"
    /\ LET r == file_read(program, buffer)
       IN  /\ buffer' = r.buffer
           /\ program' = r.rest
           /\ origin' = swap_endian(r.buffer)
    /\ pc' = "loading"
    /\ UNCHANGED << memory, registers, running, error, image, stdin, typed, stdout,
                    overflow_checks, extension, draft, cycles, fetched, pre >>

\* the arm Ok(2) of the loop of read_program
ReadWord ==
    /\ pc = "loading"
    /\ LET r == file_read(program, buffer)
       IN  /\ r.n = 2
           /\ buffer' = r.buffer
           /\ program' = r.rest
           /\ memory' = MemSet(memory, origin, swap_endian(r.buffer))
           /\ IF overflows(origin, 1)
              THEN pc' = "panicked" /\ error' = OverflowMessage /\ origin' = origin
              ELSE pc' = pc /\ error' = error /\ origin' = wrapping_add(origin, 1)
    /\ UNCHANGED << registers, running, image, stdin, typed, stdout, overflow_checks,
                    extension, draft, cycles, fetched, pre >>

\* the arm Ok(0): the loop breaks and read_program returns
ReadEnd ==
    /\ pc = "loading"
    /\ file_read(program, buffer).n = 0
    /\ pc' = "loaded"
    /\ UNCHANGED << memory, registers, running, error, image, program, buffer, origin,
                    stdin, typed, stdout, overflow_checks, extension, draft, cycles,
                    fetched, pre >>

\* the arm Ok(_): one byte was left
ReadTruncated ==
    /\ pc = "loading"
    /\ LET r == file_read(program, buffer)
       IN  /\ r.n = 1
           /\ buffer' = r.buffer
           /\ program' = r.rest
    /\ pc' = "panicked"
    /\ error' = "Unexpected error reading program."
    /\ UNCHANGED << memory, registers, running, image, origin, stdin, typed, stdout,
                    overflow_checks, extension, draft, cycles, fetched, pre >>

\* a start of the loop at the origin the loader ended with, not at 0x3000
StartExecutionAtOrigin ==
    /\ pc = "loaded"
    /\ registers' = [registers EXCEPT ![ProgramCounter] = origin]
    /\ running' = TRUE
    /\ pc' = "running"
    /\ UNCHANGED << memory, error, image, program, buffer, origin, stdin, typed, stdout,
                    overflow_checks, extension, draft, cycles, fetched, pre >>

\* VM::start between read_program and the loop
StartExecution ==
    /\ pc = "loaded"
    /\ registers' = [registers EXCEPT ![ProgramCounter] = StartPosition]
    /\ running' = TRUE
    /\ pc' = "running"
    /\ UNCHANGED << memory, error, image, program, buffer, origin, stdin, typed, stdout,
                    overflow_checks, extension, draft, cycles, fetched, pre >>

\* the machine and the control after the pass c of the loop
Commit(c) ==
    /\ c.m.blocked = ""
    /\ typed' = c.m.typed
    /\ registers' = c.m.registers
    /\ memory' = c.m.memory
    /\ running' = c.m.running
    /\ stdin' = c.m.stdin
    /\ stdout' = c.m.stdout
    /\ error' = c.m.error
    /\ pc' = IF c.m.error # "" THEN "panicked"
             ELSE IF c.m.running THEN "running" ELSE "halted"
    /\ cycles' = cycles + 1
    /\ fetched' = [addr |-> c.addr, instr |-> c.instr, decoded |-> c.decoded]
    /\ pre' = Snapshot(Machine)
    /\ draft' = [own |-> main_cycle(main_machine(Machine)),
                 fed |-> main_pass(main_machine(Machine), c.instr)]
    /\ UNCHANGED << image, program, buffer, origin, overflow_checks, extension >>

\* the loop is at its condition, which holds, and the word at the program
\* counter decodes to op
Fetches(op) ==
    /\ pc = "running"
    /\ running
    /\ cycles < MaxCycles
    /\ ~overflows(registers[ProgramCounter], 1)
    /\ from_integer(Shr(mem_read(Machine, registers[ProgramCounter]).val, 12)) = op

\* the arm OperationCodes::Add of the match
Add ==
    /\ Fetches("Add")
    /\ Commit(cycle(Machine))

\* the arm OperationCodes::And of the match
And ==
    /\ Fetches("And")
    /\ Commit(cycle(Machine))

\* the arm OperationCodes::Not of the match
Not ==
    /\ Fetches("Not")
    /\ Commit(cycle(Machine))

\* the arm OperationCodes::Branch of the match
Branch ==
    /\ Fetches("Branch")
    /\ Commit(cycle(Machine))

\* the arm OperationCodes::Jump of the match
Jump ==
    /\ Fetches("Jump")
    /\ Commit(cycle(Machine))

\* the arm OperationCodes::JumpRegister of the match
JumpRegister ==
    /\ Fetches("JumpRegister")
    /\ Commit(cycle(Machine))

\* the arm OperationCodes::Load of the match
Load ==
    /\ Fetches("Load")
    /\ Commit(cycle(Machine))

\* the arm OperationCodes::LoadIndirect of the match
LoadIndirect ==
    /\ Fetches("LoadIndirect")
    /\ Commit(cycle(Machine))

\* the arm OperationCodes::LoadRegister of the match
LoadRegister ==
    /\ Fetches("LoadRegister")
    /\ Commit(cycle(Machine))

\* the arm OperationCodes::LoadEffectiveAddress of the match
LoadEffectiveAddress ==
    /\ Fetches("LoadEffectiveAddress")
    /\ Commit(cycle(Machine))

\* the arm OperationCodes::Store of the match
Store ==
    /\ Fetches("Store")
    /\ Commit(cycle(Machine))

\* the arm OperationCodes::StoreIndirect of the match
StoreIndirect ==
    /\ Fetches("StoreIndirect")
    /\ Commit(cycle(Machine))

\* the arm OperationCodes::StoreRegister of the match
StoreRegister ==
    /\ Fetches("StoreRegister")
    /\ Commit(cycle(Machine))

\* the arm OperationCodes::Trap of the match
TrapStep ==
    /\ Fetches("Trap")
    /\ Commit(cycle(Machine))

\* the arm _ of the match, for the words that decode to Unused
Unused ==
    /\ Fetches("Unused")
    /\ Commit(cycle(Machine))

\* the arm _ of the match, for the words that decode to Reserved
Reserved ==
    /\ Fetches("Reserved")
    /\ Commit(cycle(Machine))

\* a byte of standard input arrives while the machine runs
KeyArrives ==
    /\ pc = "running"
    /\ typed < Len(stdin)
    /\ typed' = typed + 1
    /\ UNCHANGED << memory, registers, running, pc, error, image, program, buffer,
                    origin, stdin, stdout, overflow_checks, extension, draft, cycles,
                    fetched, pre >>

\* a pass of the loop that panics at the increment of the program counter
IncrementOverflow ==
    /\ pc = "running"
    /\ running
    /\ cycles < MaxCycles
    /\ overflows(registers[ProgramCounter], 1)
    /\ Commit(cycle(Machine))

Next ==
    \/ ReadOrigin
    \/ ReadWord
    \/ ReadEnd
    \/ ReadTruncated
    \/ StartExecution
    \/ Add
    \/ And
    \/ Not
    \/ Branch
    \/ Jump
    \/ JumpRegister
    \/ Load
    \/ LoadIndirect
    \/ LoadRegister
    \/ LoadEffectiveAddress
    \/ Store
    \/ StoreIndirect
    \/ StoreRegister
    \/ TrapStep
    \/ Unused
    \/ Reserved
    \/ IncrementOverflow
    \/ KeyArrives

Spec == Init /\ [][Next]_vars

(***************************************************************************)
(* sign_extend on its own: one call for each field width and each value of *)
(* a field of that width, on a machine that does not run.                  *)
(***************************************************************************)
SignExtendInit ==
    /\ memory = EmptyMemory
    /\ registers = [r \in 0 .. Count |-> 0]
    /\ running = FALSE
    /\ pc = "new"
    /\ error = ""
    /\ image = << >>
    /\ program = image
    /\ buffer = << 0, 0 >>
    /\ origin = 0
    /\ stdin = << >>
    /\ typed = 0
    /\ stdout = << >>
    /\ overflow_checks \in BOOLEAN
    /\ cycles = 0
    /\ \E bit_count \in 1 .. 15 : \E x \in 0 .. 2 ^ bit_count - 1 :
           extension = [x |-> x, bit_count |-> bit_count, y |-> -1]
    /\ draft = NoDraft
    /\ fetched = NoCycle
    /\ pre = [registers |-> registers, memory |-> memory, stdin |-> stdin, stdout |-> stdout]

\* the call sign_extend(x, bit_count) returns
SignExtend ==
    /\ extension.y = -1
    /\ extension.bit_count > 0
    /\ extension' = [extension EXCEPT !.y = sign_extend(extension.x, extension.bit_count)]
    /\ UNCHANGED << memory, registers, running, pc, error, image, program, buffer,
                    origin, stdin, typed, stdout, overflow_checks, cycles, draft,
                    fetched, pre >>

SignExtendSpec == SignExtendInit /\ [][SignExtend]_vars

(***************************************************************************)
(* The properties.  They read an instruction word by the arithmetic of its *)
(* bit fields, not by the operators of the model.                          *)
(***************************************************************************)
\* bits hi .. lo of the word w
Field(w, hi, lo) == (w \div (2 ^ lo)) % (2 ^ (hi - lo + 1))

\* the k-bit field x as a two's-complement number, taken mod 65536
Signed(x, k) == IF x >= 2 ^ (k - 1) THEN x + 65536 - 2 ^ k ELSE x

\* the flag that belongs to the value v
FlagOf(v) == IF v = 0 THEN 2 ELSE IF v >= 32768 THEN 4 ELSE 1

\* the last pass of the loop decoded a word of opcode k and ran its arm
Executed(k) == cycles > 0 /\ fetched.decoded /\ Field(fetched.instr, 15, 12) = k

\* no general-purpose register and no memory cell differs from before the pass
SameRegistersAndMemory ==
    /\ \A r \in 0 .. 7 : registers[r] = pre.registers[r]
    /\ memory = pre.memory

\* C1: after ADD the destination register holds (SR1 + operand2) mod 65536,
\* the run has not aborted, and the flag is the one of the result.
C1_AddWrapsAndSetsOneFlag ==
    Executed(1) =>
        LET w == fetched.instr
            operand2 == IF Field(w, 5, 5) = 0
                        THEN pre.registers[Field(w, 2, 0)]
                        ELSE Signed(Field(w, 4, 0), 5)
            result == (pre.registers[Field(w, 8, 6)] + operand2) % 65536
        IN  /\ pc # "panicked"
            /\ registers[Field(w, 11, 9)] = result
            /\ registers[Condition] = FlagOf(result)

\* C2: in every state, from the creation of the machine on, the condition
\* register holds exactly one of Positive (1), Zero (2), Negative (4).
C2_ExactlyOneFlagAlways == registers[Condition] \in {1, 2, 4}

\* the last pass of the loop ran the HALT trap
HaltExecuted == Executed(15) /\ Field(fetched.instr, 7, 0) = 37

\* C3: running is false before execution and true from its start; HALT sets
\* it false and nothing else changes it; after HALT there is no further pass
\* of the loop, so the registers (the program counter included) and memory
\* stay as they are.
C3_OnlyHaltStopsTheLoop ==
    /\ [](pc \in {"new", "loading", "loaded"} => ~running)
    /\ [](pc = "running" => running)
    /\ [](HaltExecuted => ~running /\ pc = "halted")
    /\ [][running # running' =>
             \/ pc = "loaded" /\ running'
             \/ ~running' /\ HaltExecuted']_vars
    /\ [][~(pc = "halted")]_vars

C3_Witness == pc = "halted" /\ ~running /\ HaltExecuted /\ cycles > 1

\* the trap codes that have a routine
KnownTraps == {32, 33, 34, 35, 36, 37}

\* C4: a TRAP whose low 8 bits name no routine ends the run with the
\* unknown-trap error, with every general-purpose register and memory cell
\* as before and nothing printed or read; no pass of the loop follows a
\* fatal error; and bits 11-8 do not take part in the choice of the routine:
\* a known code runs its routine whatever they are.
C4_UnknownTrapIsFatal ==
    /\ [](Executed(15) /\ Field(fetched.instr, 7, 0) \notin KnownTraps =>
             /\ pc = "panicked"
             /\ error = "Unknown trap code"
             /\ SameRegistersAndMemory
             /\ stdout = pre.stdout
             /\ stdin = pre.stdin)
    /\ [](Executed(15) /\ Field(fetched.instr, 7, 0) \in KnownTraps =>
             error # "Unknown trap code")
    /\ [](Executed(15) /\ Field(fetched.instr, 7, 0) = 33 =>
             stdout = Append(pre.stdout, pre.registers[0] % 256))
    /\ [][~(pc = "panicked")]_vars

C4_Witness ==
    /\ Executed(15)
    /\ fetched.instr = 15 * 4096 + 153
    /\ pc = "panicked"
    /\ pre.registers[1] # 0

\* the cells in which memory differs from what it was before the last pass
ChangedCells ==
    { a \in DOMAIN memory \cup DOMAIN pre.memory :
        MemGet(memory, a) # MemGet(pre.memory, a) }

\* the last pass decoded a word of one of the two opcodes without a handler
UndefinedExecuted == Executed(8) \/ Executed(13)

\* C5, as claimed: a word of opcode 8 or 13 ends the run with the decode
\* error, and no general-purpose register and no memory cell has changed.
C5_UndefinedOpcodeChangesNothing ==
    UndefinedExecuted =>
        /\ pc = "panicked"
        /\ error = "Unknown instruction"
        /\ SameRegistersAndMemory

\* C5, amended: a word of opcode 8 or 13 ends the run with the decode error
\* with every general-purpose register as before and every memory cell as
\* before but for the keyboard status and data cells, which the fetch of a
\* word at the keyboard-status address has polled; no pass of the loop
\* follows; and each of the other 14 opcodes has a handler (NOT complements,
\* JUMP loads the program counter from its base register).
C5_UndefinedOpcodeIsFatal ==
    /\ [](UndefinedExecuted =>
             /\ pc = "panicked"
             /\ error = "Unknown instruction"
             /\ \A r \in 0 .. 7 : registers[r] = pre.registers[r]
             /\ stdout = pre.stdout
             /\ IF fetched.addr = 65024
                THEN ChangedCells \subseteq {65024, 65026}
                ELSE ChangedCells = {} /\ stdin = pre.stdin)
    /\ [](cycles > 0 /\ fetched.decoded /\ ~UndefinedExecuted =>
             error # "Unknown instruction")
    /\ [](Executed(9) =>
             registers[Field(fetched.instr, 11, 9)]
                 = 65535 - pre.registers[Field(fetched.instr, 8, 6)])
    /\ [](Executed(12) => registers[8] = pre.registers[Field(fetched.instr, 8, 6)])
    /\ [][~(pc = "panicked")]_vars

C5_Witness ==
    /\ Executed(8)
    /\ fetched.addr = 65024
    /\ ChangedCells = {65024, 65026}
    /\ pc = "panicked"

\* the mask of a BRANCH word and the flags share a set bit
MaskMeets(mask, flags) == \E b \in 0 .. 2 : Field(mask, b, b) = 1 /\ Field(flags, b, b) = 1

\* C6: after BRANCH at address a the program counter is a + 1 when the mask
\* misses the flags and (a + 1 + sign_extend(offset)) mod 65536 when it meets
\* them, and no general-purpose register, flag or memory cell has changed.
C6_BranchTarget ==
    Executed(0) =>
        LET w == fetched.instr
            next == (fetched.addr + 1) % 65536
        IN  /\ pc # "panicked"
            /\ registers[8] = IF MaskMeets(Field(w, 11, 9), pre.registers[9])
                              THEN (next + Signed(Field(w, 8, 0), 9)) % 65536
                              ELSE next
            /\ registers[9] = pre.registers[9]
            /\ SameRegistersAndMemory

\* C7: after JUMP-REGISTER at address a, in either form, R7 holds
\* (a + 1) mod 65536.
C7_ReturnAddressSaved ==
    Executed(4) => registers[7] = (fetched.addr + 1) % 65536

C7_Witness ==
    /\ Executed(4)
    /\ Field(fetched.instr, 11, 11) = 0
    /\ registers[7] = fetched.addr + 1
    /\ pre.registers[7] # registers[7]

\* C8: after JUMP-REGISTER the program counter is the value of the register
\* named in bits 8-6 in the register form, and
\* (a + 1 + sign_extend(bits 10-0)) mod 65536 in the offset form.
C8_SubroutineTarget ==
    Executed(4) =>
        LET w == fetched.instr
        IN  /\ pc # "panicked"
            /\ registers[8] = IF Field(w, 11, 11) = 0
                              THEN pre.registers[Field(w, 8, 6)]
                              ELSE (fetched.addr + 1 + Signed(Field(w, 10, 0), 11)) % 65536

\* the file as the claims read it: its origin, its count of whole words after
\* the origin, and its k-th word
ImageOrigin == image[1] * 256 + image[2]
ImageWords == (Len(image) - 2) \div 2
ImageWord(k) == image[2 * k + 3] * 256 + image[2 * k + 4]

\* read_program has stopped: it returned, or it panicked
LoaderStopped == pc = "loaded" \/ (pc = "panicked" /\ ~running)

\* C9: once the loader has stopped on a file of 2 + 2n bytes, the k-th word
\* is in the cell origin + k (mod 65536) for each k < n and every other cell
\* is 0.
C9_ImageLoaded ==
    Len(image) >= 2 /\ Len(image) % 2 = 0 /\ LoaderStopped =>
        /\ \A k \in 0 .. ImageWords - 1 :
               \/ MemGet(memory, (ImageOrigin + k) % 65536) = ImageWord(k)
               \/ \E j \in k + 1 .. ImageWords - 1 : (j - k) % 65536 = 0
        /\ \A a \in DOMAIN memory :
               \E k \in 0 .. ImageWords - 1 : a = (ImageOrigin + k) % 65536

\* C10: a file with an odd number of bytes after the origin, or with fewer
\* than two bytes, never gets past the loader: running stays false and no
\* instruction is fetched.
C10_MalformedImageNeverRuns ==
    Len(image) < 2 \/ Len(image) % 2 = 1 =>
        /\ pc \in {"new", "loading", "panicked"}
        /\ ~running
        /\ cycles = 0

\* the last pass of the loop ran the arm of trap whose code is code
TrapExecuted(code) == Executed(15) /\ Field(fetched.instr, 7, 0) = code

\* the low bytes of the words of mem from address a up to the first zero word
RECURSIVE LowBytesFrom(_, _)
LowBytesFrom(mem, a) ==
    IF a \notin DOMAIN mem THEN << >>
    ELSE << mem[a] % 256 >> \o LowBytesFrom(mem, (a + 1) % 65536)

\* C11: PUTS prints the low byte of each word from the address in R0 up to
\* the first zero word and nothing more, then returns: the run has not
\* aborted, and no register, no memory cell and no input has changed.
C11_PutsEmitsUpToZeroWord ==
    TrapExecuted(34) =>
        /\ pc # "panicked"
        /\ stdout = pre.stdout \o LowBytesFrom(pre.memory, pre.registers[0])
        /\ \A r \in (0 .. 7) \cup { 9 } : registers[r] = pre.registers[r]
        /\ memory = pre.memory
        /\ stdin = pre.stdin

\* what the claim has PUTSP print from address a of mem: both bytes of each
\* word, up to a word whose low byte is zero (nothing of it) or whose high
\* byte is zero (its low byte only)
RECURSIVE PackedFrom(_, _)
PackedFrom(mem, a) ==
    LET low == (IF a \in DOMAIN mem THEN mem[a] ELSE 0) % 256
        high == (IF a \in DOMAIN mem THEN mem[a] ELSE 0) \div 256
    IN  IF low = 0 THEN << >>
        ELSE IF high = 0 THEN << low >>
        ELSE << low, high >> \o PackedFrom(mem, (a + 1) % 65536)

\* C12: PUTSP prints, for each word from the address in R0, the low byte and
\* then the high byte; it stops without printing at a word whose low byte is
\* zero, whatever the high byte, and stops after the low byte at a word whose
\* high byte is zero.
C12_PutspStopsAtZeroLowByte ==
    TrapExecuted(36) =>
        stdout = pre.stdout \o PackedFrom(pre.memory, pre.registers[0])

\* the call of sign_extend on its own has returned
Extended == extension.y # -1

\* the k-bit field x has its top bit set
TopBitSet(x, k) == Field(x, k - 1, k - 1) = 1

\* C13 as stated: for the widths 5, 6, 9 and 11, when the top bit of the
\* field is 1 the bits 15-6 of the result are all 1 and its low k bits are
\* the field; when the top bit is 0 the result is the field.
C13_TopTenBitsSet ==
    Extended /\ extension.bit_count \in { 5, 6, 9, 11 } =>
        IF TopBitSet(extension.x, extension.bit_count)
        THEN /\ Field(extension.y, 15, 6) = 1023
             /\ Field(extension.y, extension.bit_count - 1, 0) = extension.x
        ELSE extension.y = extension.x

\* C13 as amended: for the widths 5, 6, 9 and 11, when the top bit of the
\* field is 1 the bits 15-k of the result are all 1 and its low k bits are
\* the field; when the top bit is 0 the result is the field.
C13_BitsAboveFieldSet ==
    Extended /\ extension.bit_count \in { 5, 6, 9, 11 } =>
        IF TopBitSet(extension.x, extension.bit_count)
        THEN /\ Field(extension.y, 15, extension.bit_count)
                    = 2 ^ (16 - extension.bit_count) - 1
             /\ Field(extension.y, extension.bit_count - 1, 0) = extension.x
        ELSE extension.y = extension.x

\* the 9-bit field 0x100 extended to 0xFF00, whose bits 8-6 are 100
C13_Witness ==
    /\ Extended
    /\ extension.bit_count = 9
    /\ extension.x = 256
    /\ extension.y = 65280

\* C14: for each width k in 1 .. 15 and each k-bit field x, the result has
\* bit k-1 of x in each of its bits k .. 15 and x in its bits 0 .. k-1, and
\* is the two's-complement value of the field mod 65536.
C14_SignExtendIsTwosComplement ==
    Extended =>
        /\ \A b \in extension.bit_count .. 15 :
               Field(extension.y, b, b)
                   = Field(extension.x, extension.bit_count - 1, extension.bit_count - 1)
        /\ Field(extension.y, extension.bit_count - 1, 0) = extension.x
        /\ extension.y = Signed(extension.x, extension.bit_count)
        /\ extension.x = 1 /\ extension.bit_count = 1 => extension.y = 65535
        /\ extension.x = 5 /\ extension.bit_count = 3 => extension.y = 65533

\* sign_extend(0b101, 3) has returned 65533
C14_Witness ==
    /\ Extended
    /\ extension.bit_count = 3
    /\ extension.x = 5
    /\ extension.y = 65533

\* the bitwise AND of a and b on their bits n .. 0
RECURSIVE AndOfBits(_, _, _)
AndOfBits(a, b, n) ==
    IF n < 0 THEN 0
    ELSE Field(a, n, n) * Field(b, n, n) * 2 ^ n + AndOfBits(a, b, n - 1)

\* the pass wrote at most the register dr and the flags, and went on to the
\* next word
OnlyRegisterAndFlags(dr) ==
    /\ pc # "panicked"
    /\ \A r \in (0 .. 7) \ { dr } : registers[r] = pre.registers[r]
    /\ registers[8] = (fetched.addr + 1) % 65536
    /\ memory = pre.memory
    /\ stdin = pre.stdin
    /\ stdout = pre.stdout

\* C15: AND leaves in Rd the bitwise AND of SR1 and of SR2 (bit 5 = 0) or of
\* the sign-extended imm5 (bit 5 = 1); NOT leaves in Rd the source XOR
\* 0xFFFF whatever the low six bits of the word; both also when Rd is a
\* source, and both write nothing but Rd and the flags.
C15_AndNotResult ==
    LET w == fetched.instr
        dr == Field(w, 11, 9)
        sr == pre.registers[Field(w, 8, 6)]
        operand == IF Field(w, 5, 5) = 1 THEN Signed(Field(w, 4, 0), 5)
                   ELSE pre.registers[Field(w, 2, 0)]
    IN  /\ Executed(5) =>
            registers[dr] = AndOfBits(sr, operand, 15) /\ OnlyRegisterAndFlags(dr)
        /\ Executed(9) =>
            registers[dr] = 65535 - sr /\ OnlyRegisterAndFlags(dr)

\* AND R1, R1, R2 has run and changed R1
C15_Witness ==
    /\ Executed(5)
    /\ Field(fetched.instr, 11, 9) = Field(fetched.instr, 8, 6)
    /\ Field(fetched.instr, 5, 5) = 0
    /\ registers[Field(fetched.instr, 11, 9)] # pre.registers[Field(fetched.instr, 11, 9)]
    /\ registers[Field(fetched.instr, 11, 9)] # 0

\* the cells 0xFE00 and 0xFE02 and the input are as the poll of the claim
\* leaves them, and val is the value of 0xFE00 afterwards
PolledOnce(val) ==
    /\ val = (IF 65024 \in DOMAIN memory THEN memory[65024] ELSE 0)
    /\ IF pre.stdin = << >>
       THEN val = 0 /\ stdin = << >>
       ELSE /\ stdin = Tail(pre.stdin)
            /\ IF Head(pre.stdin) # 10
               THEN /\ val = 32768
                    /\ 65026 \in DOMAIN memory
                    /\ memory[65026] = Head(pre.stdin)
               ELSE /\ val = 0
                    /\ (65026 \in DOMAIN memory) = (65026 \in DOMAIN pre.memory)
                    /\ 65026 \in DOMAIN memory => memory[65026] = pre.memory[65026]

\* LDR has read the cell 0xFE00 in a pass fetched from elsewhere
StatusLoaded ==
    /\ Executed(6)
    /\ pc # "panicked"
    /\ fetched.addr # 65024
    /\ (pre.registers[Field(fetched.instr, 8, 6)]
            + Signed(Field(fetched.instr, 5, 0), 6)) % 65536 = 65024

\* the last pass fetched its word from 0xFE00 and its arm read no memory
StatusFetched ==
    /\ cycles > 0
    /\ fetched.decoded
    /\ fetched.addr = 65024
    /\ Field(fetched.instr, 15, 12) \in { 0, 8 }

\* C16: a read of 0xFE00 through mem_read never waits for input; with no
\* byte to read it leaves 0 in memory[0xFE00], with a byte other than
\* newline 0x8000 there and the byte in memory[0xFE02], with a newline 0
\* there and memory[0xFE02] as it was; it returns memory[0xFE00].
C16_PollDoesNotWait ==
    /\ waiting # "mem_read"
    /\ StatusLoaded => PolledOnce(registers[Field(fetched.instr, 11, 9)])
    /\ StatusFetched => PolledOnce(fetched.instr)

\* the address PC + offset9 of the word of the last pass, mod 65536
PcRelative == (fetched.addr + 1 + Signed(Field(fetched.instr, 8, 0), 9)) % 65536

\* the address base + offset6 of the word of the last pass, mod 65536
BaseRelative ==
    (pre.registers[Field(fetched.instr, 8, 6)]
        + Signed(Field(fetched.instr, 5, 0), 6)) % 65536

\* the arm of the last pass has run to its end and one of its reads of
\* memory is a read of the cell a: the word of LD, the pointer of LDI and of
\* STI, the word of LDR, the first word of PUTS and of PUTSP
HandlerReads(a) ==
    /\ cycles > 0
    /\ fetched.decoded
    /\ pc # "panicked"
    /\ \/ Field(fetched.instr, 15, 12) \in { 2, 10, 11 } /\ PcRelative = a
       \/ Field(fetched.instr, 15, 12) = 6 /\ BaseRelative = a
       \/ (TrapExecuted(34) \/ TrapExecuted(36)) /\ pre.registers[0] = a

\* the last pass fetched its word from the cell a
FetchReads(a) == cycles > 0 /\ fetched.addr = a

\* C17: each read of memory goes through mem_read, so a pass that reads
\* the cell 0xFE00, in its fetch, in LD, LDI, LDR or STI, or as the first
\* word of PUTS or PUTSP, polls the keyboard: it takes a byte of the input
\* when there is one.
C17_EveryReadPolls ==
    (FetchReads(65024) \/ HandlerReads(65024)) /\ pre.stdin # << >> =>
        Len(stdin) < Len(pre.stdin)

\* C18: no address computation aborts the run: the fetch increment at
\* 0xFFFF goes on to 0x0000, and BR, JSR, LD, LDI, LEA, ST, STI (PC plus
\* offset) and LDR, STR (base plus offset) take the sum mod 65536 as their
\* address for every operand, negative offsets included.
C18_AddressesWrap ==
    /\ cycles > 0 => fetched.decoded
    /\ \A k \in { 0, 2, 3, 4, 6, 7, 10, 11, 14 } :
           Executed(k) => error # "attempt to add with overflow"
    /\ Executed(14) => registers[Field(fetched.instr, 11, 9)] = PcRelative
    /\ Executed(3) =>
           (IF PcRelative \in DOMAIN memory THEN memory[PcRelative] ELSE 0)
               = pre.registers[Field(fetched.instr, 11, 9)]
    /\ Executed(7) =>
           (IF BaseRelative \in DOMAIN memory THEN memory[BaseRelative] ELSE 0)
               = pre.registers[Field(fetched.instr, 11, 9)]

\* the last pass ran one of ADD, AND, NOT, LD, LDI, LDR and LEA to its end,
\* and so wrote the register in bits 11-9 of its word
DestinationWritten ==
    /\ \E k \in { 1, 2, 5, 6, 9, 10, 14 } : Executed(k)
    /\ pc # "panicked"

\* the last pass ran GETC or IN to its end, and so wrote R0
CharacterRead == (TrapExecuted(32) \/ TrapExecuted(35)) /\ pc # "panicked"

\* C19 as stated: after ADD, AND, NOT, LD, LDI, LDR and LEA, and also after
\* JSR (which writes R7) and GETC and IN (which write R0), the condition
\* register holds the flag of the value just written.
C19_FlagsFollowEveryWrite ==
    /\ DestinationWritten =>
           registers[9] = FlagOf(registers[Field(fetched.instr, 11, 9)])
    /\ Executed(4) => registers[9] = FlagOf(registers[7])
    /\ CharacterRead => registers[9] = FlagOf(registers[0])

\* C19 as amended: after ADD, AND, NOT, LD, LDI, LDR and LEA the condition
\* register holds the flag of the value just written; JSR, GETC and IN
\* leave the condition register as it was.
C19_FlagsFollowDestination ==
    /\ DestinationWritten =>
           registers[9] = FlagOf(registers[Field(fetched.instr, 11, 9)])
    /\ Executed(4) => registers[9] = pre.registers[9]
    /\ CharacterRead => registers[9] = pre.registers[9]

\* a load has left a negative value in its register and Negative in the
\* flags, which were not Negative before
C19_Witness ==
    /\ DestinationWritten
    /\ Executed(6)
    /\ registers[Field(fetched.instr, 11, 9)] >= 32768
    /\ registers[9] = 4
    /\ pre.registers[9] # 4

\* no register but the program counter differs from before the last pass
OnlyProgramCounter == \A r \in (0 .. 7) \cup { 9 } : registers[r] = pre.registers[r]

\* the last pass stored the register in bits 11-9 of its word to the cell a
\* and did nothing else: no other cell differs, the cell a holds the
\* register's value once the store is done, and no register differs but the
\* program counter, which is one past the address of the word
StoredOnlyTo(a) ==
    /\ ChangedCells \subseteq { a }
    /\ pc # "panicked" =>
           (IF a \in DOMAIN memory THEN memory[a] ELSE 0)
               = pre.registers[Field(fetched.instr, 11, 9)]
    /\ OnlyProgramCounter
    /\ registers[8] = (fetched.addr + 1) % 65536

AccessAddress ==
    IF Field(fetched.instr, 15, 12) \in { 2, 3 } THEN PcRelative ELSE BaseRelative

\* the arm of the last pass was LD or LDR and ran to its end, in a pass
\* fetched from a cell other than 0xFE00
Loaded ==
    /\ Executed(2) \/ Executed(6)
    /\ pc # "panicked"
    /\ fetched.addr # 65024

\* the arm of the last pass was ST or STR and ran to its end
Stored ==
    /\ Executed(3) \/ Executed(7)
    /\ pc # "panicked"

\* C21: a read through mem_read of a cell other than 0xFE00, the cell 0xFE02
\* included, returns what the cell holds, changes no cell and takes no
\* input; a write through mem_write changes no cell but the one addressed,
\* leaves the value there and takes no input, also at 0xFE00 and 0xFE02.
C21_PlainReadsAndWrites ==
    /\ cycles > 0 /\ fetched.addr # 65024 =>
           fetched.instr
               = (IF fetched.addr \in DOMAIN pre.memory THEN pre.memory[fetched.addr] ELSE 0)
    /\ Loaded /\ AccessAddress # 65024 =>
           /\ registers[Field(fetched.instr, 11, 9)]
                  = (IF AccessAddress \in DOMAIN pre.memory
                     THEN pre.memory[AccessAddress] ELSE 0)
           /\ memory = pre.memory
           /\ stdin = pre.stdin
    /\ Stored =>
           /\ ChangedCells \subseteq { AccessAddress }
           /\ (IF AccessAddress \in DOMAIN memory THEN memory[AccessAddress] ELSE 0)
                  = pre.registers[Field(fetched.instr, 11, 9)]
           /\ stdin = pre.stdin

\* LDR has read the key 65 from the cell 0xFE02 while input was left
C21_Witness ==
    /\ Loaded
    /\ AccessAddress = 65026
    /\ registers[Field(fetched.instr, 11, 9)] = 65
    /\ pre.stdin # << >>

\* a read of the cell a as the spec describes it, on the memory mem and the
\* input in: the memory and the input after it and the value it returns
ReadOf(mem, in, a) ==
    IF a # 65024 THEN [mem |-> mem, in |-> in, val |-> MemGet(mem, a)]
    ELSE IF in = << >>
    THEN [mem |-> MemSet(mem, 65024, 0), in |-> in, val |-> 0]
    ELSE IF Head(in) # 10
    THEN [mem |-> MemSet(MemSet(mem, 65024, 32768), 65026, Head(in)),
          in |-> Tail(in), val |-> 32768]
    ELSE [mem |-> MemSet(mem, 65024, 0), in |-> Tail(in), val |-> 0]

\* C22: LDI at address a reads the pointer p from the cell a + 1 + offset9
\* (mod 65536) and then the cell p, both through mem_read and in that
\* order, leaves the second value in the destination register and sets the
\* flags from it; the run goes on.
C22_LoadIndirectReadsTwice ==
    Executed(10) =>
        LET first == ReadOf(pre.memory, pre.stdin, PcRelative)
            second == ReadOf(first.mem, first.in, first.val)
        IN  /\ pc # "panicked"
            /\ registers[Field(fetched.instr, 11, 9)] = second.val
            /\ registers[9] = FlagOf(second.val)
            /\ memory = second.mem
            /\ stdin = second.in

\* C23: as long as read_program has not returned, running is false and no
\* pass of the loop has begun; when a pass has begun the file has been read
\* to its end; and the first pass fetches the word of the cell 0x3000,
\* whatever the origin of the image.
C23_LoadBeforeFirstFetch ==
    /\ pc \in { "new", "loading", "loaded" } => ~running /\ cycles = 0
    /\ cycles > 0 => program = << >>
    /\ cycles = 1 =>
           /\ fetched.addr = 12288
           /\ fetched.instr = (IF 12288 \in DOMAIN pre.memory THEN pre.memory[12288] ELSE 0)

\* the first pass has fetched from 0x3000 after an image of another origin
\* was loaded
C23_Witness ==
    /\ cycles = 1
    /\ fetched.addr = 12288
    /\ Len(image) >= 4
    /\ ImageOrigin # 12288
    /\ pre.memory # EmptyMemory

\* the last pass ran the arm of GETC or of IN
CharacterTrap == TrapExecuted(32) \/ TrapExecuted(35)

\* C24: GETC with input left puts the next byte of the input in R0, a value
\* in 0 .. 255, and changes no other register, the flags included, and no
\* memory cell; IN does the same after printing its prompt.  With the input
\* at its end GETC and IN abort the run, and no step follows an abort.
C24_GetCharacter ==
    /\ [](CharacterTrap /\ pre.stdin # << >> =>
             /\ pc # "panicked"
             /\ registers[0] = Head(pre.stdin)
             /\ registers[0] \in 0 .. 255
             /\ \A r \in (1 .. 7) \cup { 9 } : registers[r] = pre.registers[r]
             /\ registers[8] = (fetched.addr + 1) % 65536
             /\ memory = pre.memory
             /\ stdin = Tail(pre.stdin))
    /\ [](TrapExecuted(32) => stdout = pre.stdout)
    /\ [](TrapExecuted(35) =>
             stdout = pre.stdout \o << 69, 110, 116, 101, 114, 32, 97, 32, 99, 104,
                                       97, 114, 97, 99, 116, 101, 114, 58, 32 >>)
    /\ [](CharacterTrap /\ pre.stdin = << >> =>
             /\ pc = "panicked"
             /\ error = "Could not read character!")
    /\ [][pc # "panicked"]_vars

\* GETC has aborted the run at the end of the input
C24_Witness ==
    /\ TrapExecuted(32)
    /\ pre.stdin = << >>
    /\ pc = "panicked"
    /\ error = "Could not read character!"

\* the bytes the last pass took from the input, in the order of the stream
TakenBytes == SubSeq(pre.stdin, 1, Len(pre.stdin) - Len(stdin))

\* C25: every step leaves of the input a suffix of what was left, so the
\* bytes are taken in the order of the stream and each once; GETC and IN
\* deliver the byte at the head of what is left and take it; a pass that
\* is not a store changes the data register 0xFE02 only to a byte it took
\* itself, which is not a newline; so no byte reaches both a keyboard poll
\* and GETC or IN.
C25_InputConsumedOnce ==
    /\ [][/\ Len(stdin') <= Len(stdin)
          /\ stdin' = SubSeq(stdin, Len(stdin) - Len(stdin') + 1, Len(stdin))]_vars
    /\ [](CharacterTrap /\ pc # "panicked" =>
             /\ registers[0] = Head(pre.stdin)
             /\ TakenBytes = << Head(pre.stdin) >>
             /\ memory = pre.memory)
    /\ [](/\ cycles > 0
          /\ ~(Executed(3) \/ Executed(7) \/ Executed(11))
          /\ 65026 \in ChangedCells
          => /\ memory[65026] # 10
             /\ \E i \in 1 .. Len(TakenBytes) : TakenBytes[i] = memory[65026])

\* GETC has delivered the second byte of the input after a keyboard poll had
\* taken the first
C25_Witness ==
    /\ TrapExecuted(32)
    /\ pc # "panicked"
    /\ 65026 \in DOMAIN memory
    /\ memory[65026] = 65
    /\ registers[0] = 66
    /\ stdin = << 10 >>


\* the machine d of the draft has the general-purpose registers, the program
\* counter, the condition flag and the memory of the engine, and has aborted
\* exactly when the engine has
DraftAgrees(d) ==
    /\ \A r \in 0 .. Condition : d.registers[r] = registers[r]
    /\ d.memory = memory
    /\ (d.error # "") = (error # "")

\* C26: after a cycle of the engine of lc3_vm.rs on an instruction word, a
\* cycle of the draft engine of main.rs on the same word from the same
\* registers and memory leaves the same general-purpose registers, program
\* counter, condition flag and memory, whatever the word (the draft is given
\* the word the engine fetched; a draft still waiting for a key is not
\* compared).
C26_DraftEquivalent ==
    cycles > 0 /\ fetched.decoded =>
        \A i \in 1 .. Len(draft.fed) :
            draft.fed[i].blocked = "" => DraftAgrees(draft.fed[i])

====
